---- MODULE Spec2Model ----
(***************************************************************************)
(* The conversation session engine of the chat front end:                  *)
(*   Frontend/src/App.jsx (AppContent: history, handleSubmit, effects),    *)
(*   Frontend/src/contexts/ConversationsContext.jsx (sidebar, active id,   *)
(*   message buffer, pagination), the auth context and the API client.     *)
(*                                                                         *)
(* One step of the model is one run-to-completion turn of the browser's    *)
(* event loop: a user event handler, or the continuation of an async       *)
(* function after one awaited promise settles, together with the React     *)
(* state updates and effects it causes.                                    *)
(***************************************************************************)
EXTENDS Integers, Sequences, FiniteSets, TLC

(* ------------------------------ bounds -------------------------------- *)
\* number of handleSubmit invocations that pass the blank check
MaxSends == 2
\* number of event lines in one query response
MaxLines == 2
\* number of conversations the backend holds when the session starts
NumConvs == 3
\* number of messages in one full page of the model's backend
PageLen == 2
\* number of page loads requested (selectConversation, loadMoreMessages)
MaxLoads == 3
\* how many deleteConversation and updateTitle calls are made
MaxCalls == 2
\* how many ticks the browser's clock may be behind or ahead of the backend's
MaxSkew == 2

(* ----------------------------- constants ------------------------------ *)
\* effectiveQuery.substring(0, 100)
PreviewLen == 100

Null == 0
NoChart == <<>>
NL == "\n"
FailureString == <<"Sorry, I encountered an error connecting to the server.">>

Sends == 1..MaxSends

Min(a, b) == IF a < b THEN a ELSE b

(* ------------------------- stream wire format -------------------------- *)
(* A character is a one-character string.  An event line is the JSON text  *)
(* of one object, abstracted to  "{" kind payload "}"  with kind "t"       *)
(* (type token, payload = chunk), "c" (type chart, payload = content),     *)
(* "e" (type error, payload = content) or "o" (an object of another type). *)
PayloadChars == {"a", "b"}
KindChars == {"t", "c", "e", "o"}

EncodeEvent(kind, payload) == <<"{", kind>> \o payload \o <<"}">>

\* the event lines a server emits in the model, and a line that is no JSON
EventLines ==
    { EncodeEvent("t", <<"a">>), EncodeEvent("t", <<"b">>),
      EncodeEvent("e", <<"a">>), EncodeEvent("c", <<"b">>) }
BadLine == <<"x">>
ServerLines == EventLines \cup {BadLine}

\* the response bodies the backend may stream: up to MaxLines lines
RECURSIVE BodiesOfLen(_)
BodiesOfLen(n) ==
    IF n = 0 THEN { <<>> }
    ELSE { Append(b, l) : b \in BodiesOfLen(n - 1), l \in ServerLines }
Bodies == UNION { BodiesOfLen(n) : n \in 0..MaxLines }

\* the bytes of a body on the wire: every line is ended by "\n"
RECURSIVE Serialize(_)
Serialize(body) ==
    IF body = <<>> THEN <<>>
    ELSE Head(body) \o <<NL>> \o Serialize(Tail(body))

\* the response bodies of the query endpoint in the runs of the whole
\* controller: no event, one token, a token and a chart
ResponseBodies ==
    { <<>>,
      <<EncodeEvent("t", <<"a">>)>>,
      <<EncodeEvent("t", <<"a">>), EncodeEvent("c", <<"b">>)>> }

\* String.prototype.split("\n")
RECURSIVE SplitNL(_, _)
SplitNL(chunk, cur) ==
    IF chunk = <<>> THEN <<cur>>
    ELSE IF Head(chunk) = NL THEN <<cur>> \o SplitNL(Tail(chunk), <<>>)
    ELSE SplitNL(Tail(chunk), Append(cur, Head(chunk)))

\* line.trim() !== ""
NotBlank(line) == \E i \in 1..Len(line) : line[i] \notin {" ", NL}

\* chunk.split("\n").filter(line => line.trim() !== "")
ChunkLines(chunk) == SelectSeq(SplitNL(chunk, <<>>), NotBlank)

\* JSON.parse(line): ok = FALSE stands for the SyntaxError it throws
JSONParse(line) ==
    LET n == Len(line) IN
    IF n >= 2 /\ line[1] = "{" /\ line[n] = "}"
       /\ (n = 2 \/ (line[2] \in KindChars
                     /\ \A i \in 3..(n - 1) : line[i] \in PayloadChars))
    THEN [ok |-> TRUE,
          type |-> IF n = 2 THEN "o" ELSE line[2],
          payload |-> IF n = 2 THEN <<>> ELSE SubSeq(line, 3, n - 1)]
    ELSE [ok |-> FALSE, type |-> "o", payload |-> <<>>]

ErrorMarker(content) == <<NL, "[Error: ">> \o content \o <<"]">>

\* the three branches on data.type; msg is assistantMsg
ApplyEvent(msg, data) ==
    IF data.type = "t" THEN [msg EXCEPT !.content = @ \o data.payload]
    ELSE IF data.type = "c" THEN [msg EXCEPT !.chart = data.payload]
    ELSE IF data.type = "e"
         THEN [msg EXCEPT !.content = @ \o ErrorMarker(data.payload)]
    ELSE msg

\* does the line reach a setHistory call
Applies(line) == JSONParse(line).ok /\ JSONParse(line).type \in {"t", "c", "e"}

\* the body of the for loop: try { parse, apply } catch { log }
ProcessLine(msg, line) ==
    IF JSONParse(line).ok THEN ApplyEvent(msg, JSONParse(line)) ELSE msg

\* FoldLines with the try/catch around the whole loop: a line that does not
\* parse ends the loop over the lines of the chunk
RECURSIVE FoldLinesCatchOutside(_, _)
FoldLinesCatchOutside(msg, lines) ==
    IF lines = <<>> THEN msg
    ELSE IF ~JSONParse(Head(lines)).ok THEN msg
    ELSE FoldLinesCatchOutside(ProcessLine(msg, Head(lines)), Tail(lines))

RECURSIVE FoldLines(_, _)
FoldLines(msg, lines) ==
    IF lines = <<>> THEN msg
    ELSE FoldLines(ProcessLine(msg, Head(lines)), Tail(lines))

\* one iteration of the while loop on a received chunk
ProcessChunk(msg, chunk) == FoldLines(msg, ChunkLines(chunk))

\* number of setHistory calls the chunk causes
AppliedCount(chunk) == Len(SelectSeq(ChunkLines(chunk), Applies))

(* ------------------------------- state --------------------------------- *)
VARIABLES
    isAuthenticated,       \* AuthContext: isAuthenticated
    conversations,         \* ConversationsContext: the sidebar list
    activeConversationId,  \* ConversationsContext: Null when none
    messages,              \* ConversationsContext: the message buffer
    messagesPage,          \* ConversationsContext: pagination cursor, page
    hasMoreMessages,       \* ConversationsContext: pagination cursor, has_more
    isLoadingMessages,     \* ConversationsContext: page load flag
    history,               \* AppContent: the visible transcript
    isLoading,             \* AppContent: a send is in progress
    abortControllerRef,    \* AppContent: id of the controller in the ref, or Null
    aborted,               \* the controllers whose abort() was called
    sends,                 \* the handleSubmit invocations, by number
    nextSend,              \* how many invocations passed the blank check
    requests,              \* page loads awaiting the backend's answer
    nextReq,               \* how many page loads were requested
    nextConvId,            \* backend: next conversation id to assign
    clock,                 \* the time stamps handed out so far
    framing,               \* transport: where chunk boundaries may fall
    clockSkew,             \* how far the browser's clock is ahead of the backend's
    calls,                 \* deleteConversation and updateTitle calls, by number
    freshChat              \* startNewChat was the last choice of conversation

vars == <<isAuthenticated, conversations, activeConversationId, messages,
          messagesPage, hasMoreMessages, isLoadingMessages, history, isLoading,
          abortControllerRef, aborted, sends, nextSend, requests, nextReq,
          nextConvId, clock, framing, clockSkew, calls, freshChat>>

sideVars == <<clockSkew, calls, freshChat>>

ctxVars == <<conversations, activeConversationId, messages, messagesPage,
             hasMoreMessages, isLoadingMessages, requests, nextReq, nextConvId,
             clock>>
pageVars == <<messages, messagesPage, hasMoreMessages, isLoadingMessages,
              requests, nextReq>>
sendVars == <<history, isLoading, abortControllerRef, aborted, sends, nextSend>>

\* let assistantMsg = { role: "assistant", content: "", chart: null }
FreshAssistantMsg == [content |-> <<>>, chart |-> NoChart]

\* a handleSubmit invocation that has not been made yet; at (where in the
\* transcript its placeholder was appended) and log are bookkeeping
IdleSend ==
    [pc |-> "idle", query |-> <<>>, auth |-> FALSE, conv |-> Null, sig |-> Null,
     msg |-> FreshAssistantMsg, body |-> <<>>, pos |-> 0, at |-> 0,
     msgId |-> Null, log |-> <<>>]

\* transcript entries; owner (the invocation that made the entry, 0 when it
\* was loaded from the backend), conv and id (the conversation and the id of
\* a loaded message) are bookkeeping of the model
UserEntry(s, q) ==
    [role |-> "user", content |-> q, chart |-> NoChart, owner |-> s, conv |-> Null,
     id |-> Null]
AssistantEntry(s, msg) ==
    [role |-> "assistant", content |-> msg.content, chart |-> msg.chart,
     owner |-> s, conv |-> Null, id |-> Null]
ApologyEntry(s) ==
    [role |-> "assistant", content |-> FailureString, chart |-> NoChart,
     owner |-> s, conv |-> Null, id |-> Null]

\* newHistory[newHistory.length - 1] = {...assistantMsg}; on an empty array the
\* assignment sets the property "-1" and the array stays empty
SetLast(h, e) == IF h = <<>> THEN h ELSE [h EXCEPT ![Len(h)] = e]

Logged(rec, op) == [rec EXCEPT !.log = Append(@, op)]

(* --------------------------- sidebar cache ----------------------------- *)
\* updated.sort((a, b) => new Date(b.updated_at) - new Date(a.updated_at)):
\* a stable sort, newest first
RECURSIVE InsertDesc(_, _)
InsertDesc(sorted, c) ==
    IF sorted = <<>> THEN <<c>>
    ELSE IF Head(sorted).updated_at >= c.updated_at
         THEN <<Head(sorted)>> \o InsertDesc(Tail(sorted), c)
    ELSE <<c>> \o sorted

RECURSIVE SortDesc(_)
SortDesc(cs) ==
    IF cs = <<>> THEN <<>>
    ELSE InsertDesc(SortDesc(SubSeq(cs, 1, Len(cs) - 1)), cs[Len(cs)])

\* updateSidebarItem(conversationId, lastMessage), now = new Date()
UpdateSidebarItem(cs, id, lastMessage, now) ==
    SortDesc([i \in 1..Len(cs) |->
                 IF cs[i].id = id
                 THEN [cs[i] EXCEPT !.last_message = lastMessage,
                                    !.updated_at = now]
                 ELSE cs[i]])

\* the entry createNewConversation puts in front of the sidebar
NewSidebarEntry(id, title, now) ==
    [id |-> id, title |-> title, last_message |-> <<>>, updated_at |-> now]

\* effectiveQuery.substring(0, 100)
Preview(q) == SubSeq(q, 1, Min(PreviewLen, Len(q)))

(* ------------------------------ the backend ---------------------------- *)
(* Conversation c of the backend holds c - 1 full pages of messages, so     *)
(* conversation 1 is empty.  Messages are numbered from the oldest; page 1  *)
(* is the newest page, and a page lists its messages oldest first.          *)
Convs == 1..NumConvs
PagesOf(c) == c - 1

BackendMessage(c, n) ==
    [id |-> (c - 1) * NumConvs * PageLen + n,
     conv |-> c,
     role |-> IF n % 2 = 1 THEN "user" ELSE "assistant",
     content |-> <<"m">>,
     artifacts |-> IF n % 2 = 1 THEN <<>>
                   ELSE <<[type |-> "chart", chart_type |-> "bar",
                           data_snapshot |-> <<"d">>]>>]

\* GET /api/conversations/{c}/messages?page=p
BackendPage(c, p) ==
    IF p \in 1..PagesOf(c)
    THEN [i \in 1..PageLen |-> BackendMessage(c, (PagesOf(c) - p) * PageLen + i)]
    ELSE <<>>
BackendHasMore(c, p) == p < PagesOf(c)

(* -------------------------- AppContent effects ------------------------- *)
\* messages.map(msg => ...): the chart artifact of a message becomes its chart
ConvertMessage(m) ==
    LET charts == SelectSeq(m.artifacts, LAMBDA a : a.type = "chart")
    IN [role |-> m.role, content |-> m.content,
        chart |-> IF charts = <<>> THEN NoChart
                  ELSE <<charts[1].chart_type>> \o charts[1].data_snapshot,
        owner |-> 0, conv |-> m.conv, id |-> m.id]

\* effect on [messages, isAuthenticated], run when setMessages was called
SyncHistory(h, msgs) ==
    IF isAuthenticated /\ Len(msgs) > 0
    THEN [i \in 1..Len(msgs) |-> ConvertMessage(msgs[i])]
    ELSE h

\* effect on [activeConversationId, isAuthenticated], run when the id changed
ClearOnNewChat(h, old, new) ==
    IF old # new /\ new = Null /\ isAuthenticated THEN <<>> ELSE h

(* ------------------------------ handleSubmit --------------------------- *)
\* what the user may have typed: a query, or only white space
Queries == { <<"q">>, <<" ">> }

LogEntry(op, conv) == [op |-> op, conv |-> conv, active |-> activeConversationId]

\* catch (error) with error.name other than AbortError, then finally
FailSend(s, rec) ==
    /\ sends' = [sends EXCEPT ![s] = [rec EXCEPT !.pc = "failed"]]
    /\ history' = Append(history, ApologyEntry(s))
    /\ isLoading' = FALSE

\* the end of the try block, or the AbortError branch, then finally
EndSend(s, rec, how) ==
    /\ sends' = [sends EXCEPT ![s] = [rec EXCEPT !.pc = how]]
    /\ isLoading' = FALSE

\* fetch(`${API_URL}/query`, {..., signal: abortControllerRef.current.signal}):
\* reading .signal of null throws a TypeError, which the outer catch takes
CallQuery(s, rec) ==
    IF abortControllerRef = Null
    THEN FailSend(s, rec)
    ELSE IF abortControllerRef \in aborted
    THEN EndSend(s, rec, "aborted") /\ UNCHANGED history
    ELSE /\ sends' = [sends EXCEPT ![s] =
                        [Logged(rec, LogEntry("query", rec.conv))
                            EXCEPT !.pc = "fetch", !.sig = abortControllerRef]]
         /\ UNCHANGED <<history, isLoading>>

\* handleSubmit with isLoading false and a blank query: return
SendBlank ==
    /\ ~isLoading
    /\ \E q \in Queries : ~NotBlank(q)
    /\ UNCHANGED vars

\* the ways an invocation ends; its locals are dropped ("ended") when the
\* next invocation starts
EndStates == {"completed", "aborted", "failed"}
Dropped(rec) ==
    IF rec.pc \in EndStates \cup {"ended"}
    THEN [IdleSend EXCEPT !.pc = "ended"] ELSE rec

\* FirstCall that persists the user message without creating a conversation
FirstCallSkipsCreate(rec, s) ==
    IF rec.auth
    THEN [Logged(rec, LogEntry("saveUser", rec.conv)) EXCEPT !.pc = "saveUser"]
    ELSE [Logged(rec, LogEntry("query", rec.conv))
             EXCEPT !.pc = "fetch", !.sig = s]

\* the first await of handleSubmit: createNewConversation, sendMessage for
\* the user message, or the query itself
FirstCall(rec, s) ==
    IF rec.auth /\ rec.conv = Null
    THEN [Logged(rec, LogEntry("create", Null)) EXCEPT !.pc = "create"]
    ELSE IF rec.auth
    THEN [Logged(rec, LogEntry("saveUser", rec.conv)) EXCEPT !.pc = "saveUser"]
    ELSE [Logged(rec, LogEntry("query", rec.conv))
             EXCEPT !.pc = "fetch", !.sig = s]

\* handleSubmit with isLoading false, up to the first await
Send ==
    /\ ~isLoading
    /\ nextSend < MaxSends
    /\ \E q \in Queries :
        /\ NotBlank(q)
        /\ LET s == nextSend + 1
               rec == [IdleSend EXCEPT !.query = q, !.auth = isAuthenticated,
                                       !.conv = activeConversationId]
           IN  /\ nextSend' = s
               /\ history' = Append(history, UserEntry(s, q))
               /\ isLoading' = TRUE
               /\ abortControllerRef' = s
               /\ sends' = [x \in Sends |->
                               IF x = s THEN FirstCall(rec, s)
                               ELSE Dropped(sends[x])]
    /\ freshChat' = FALSE
    /\ UNCHANGED <<isAuthenticated, ctxVars, aborted, framing, clockSkew, calls>>

\* an abort() of controller ref rejects the pending fetch or read of every
\* invocation that passed its signal
RejectsOnAbort(rec, ref) ==
    ref # Null /\ rec.pc \in {"fetch", "read"} /\ rec.sig = ref

\* handleSubmit with isLoading true: the stop branch, and the AbortError
\* continuations it causes
Stop ==
    /\ isLoading
    /\ aborted' = IF abortControllerRef # Null
                  THEN aborted \cup {abortControllerRef} ELSE aborted
    /\ sends' = [s \in Sends |->
                    IF RejectsOnAbort(sends[s], abortControllerRef)
                    THEN [sends[s] EXCEPT !.pc = "aborted"]
                    ELSE sends[s]]
    /\ abortControllerRef' = Null
    /\ isLoading' = FALSE
    /\ UNCHANGED <<isAuthenticated, ctxVars, history, nextSend, framing, sideVars>>

\* createNewConversation resolves: the sidebar entry, the active id, then
\* sendMessage for the user message is called
CreateOk(s) ==
    /\ sends[s].pc = "create"
    /\ conversations' =
           <<NewSidebarEntry(nextConvId, sends[s].query, clock + 1)>>
               \o conversations
    /\ activeConversationId' = nextConvId
    /\ messages' = <<>>
    /\ history' = ClearOnNewChat(SyncHistory(history, <<>>),
                                 activeConversationId, nextConvId)
    /\ nextConvId' = nextConvId + 1
    /\ clock' = clock + 1
    /\ sends' = [sends EXCEPT ![s] =
          [Logged(Logged(sends[s], LogEntry("create.ok", nextConvId)),
                  [op |-> "saveUser", conv |-> nextConvId,
                   active |-> nextConvId])
              EXCEPT !.pc = "saveUser", !.conv = nextConvId]]
    /\ UNCHANGED <<isAuthenticated, messagesPage, hasMoreMessages,
                   isLoadingMessages, requests, nextReq, isLoading,
                   abortControllerRef, aborted, nextSend, framing, sideVars>>

\* createNewConversation rejects: the inner catch logs, the query is called
CreateFail(s) ==
    /\ sends[s].pc = "create"
    /\ CallQuery(s, Logged(sends[s], LogEntry("create.fail", Null)))
    /\ UNCHANGED <<isAuthenticated, ctxVars, abortControllerRef, aborted,
                   nextSend, framing, sideVars>>

\* sendMessage for the user message settles either way: the query is called
SaveUserDone(s) ==
    /\ sends[s].pc = "saveUser"
    /\ \E ok \in BOOLEAN :
          CallQuery(s, Logged(sends[s],
                              LogEntry(IF ok THEN "saveUser.done"
                                       ELSE "saveUser.fail", sends[s].conv)))
    /\ UNCHANGED <<isAuthenticated, ctxVars, abortControllerRef, aborted,
                   nextSend, framing, sideVars>>

\* the query answers 200: the placeholder is appended, the first read starts
FetchOk(s) ==
    /\ sends[s].pc = "fetch"
    /\ \E w \in ResponseBodies :
          sends' = [sends EXCEPT ![s] = [@ EXCEPT !.pc = "read", !.body = w,
                                                 !.at = Len(history) + 1]]
    /\ history' = Append(history, AssistantEntry(s, sends[s].msg))
    /\ UNCHANGED <<isAuthenticated, ctxVars, isLoading, abortControllerRef,
                   aborted, nextSend, framing, sideVars>>

\* the request is rejected by the network, or answered with !response.ok
FetchFail(s) ==
    /\ sends[s].pc = "fetch"
    /\ FailSend(s, sends[s])
    /\ UNCHANGED <<isAuthenticated, ctxVars, abortControllerRef, aborted,
                   nextSend, framing, sideVars>>

\* where the transport may end the next chunk of the body w after pos
CutPoints(w, pos) ==
    { k \in (pos + 1)..Len(w) : framing = "bytes" \/ w[k] = NL }

\* reader.read() resolves with a chunk: the lines of the chunk are folded
ReadChunk(s) ==
    /\ sends[s].pc = "read"
    /\ \E k \in CutPoints(Serialize(sends[s].body), sends[s].pos) :
        LET chunk == SubSeq(Serialize(sends[s].body), sends[s].pos + 1, k)
            msg == ProcessChunk(sends[s].msg, chunk)
        IN  /\ sends' = [sends EXCEPT ![s] = [@ EXCEPT !.msg = msg, !.pos = k]]
            /\ history' = IF AppliedCount(chunk) > 0
                          THEN SetLast(history, AssistantEntry(s, msg))
                          ELSE history
    /\ UNCHANGED <<isAuthenticated, ctxVars, isLoading, abortControllerRef,
                   aborted, nextSend, framing, sideVars>>

\* reader.read() rejects with a transport error
ReadFail(s) ==
    /\ sends[s].pc = "read"
    /\ FailSend(s, sends[s])
    /\ UNCHANGED <<isAuthenticated, ctxVars, abortControllerRef, aborted,
                   nextSend, framing, sideVars>>

\* if (isAuthenticated && currentConversationId && assistantMsg.content)
SavesAssistant(rec) == rec.auth /\ rec.conv # Null /\ rec.msg.content # <<>>

\* ReadDone with the assistant message saved under the active conversation
ReadDoneUnderActive(s) ==
    /\ sends[s].pc = "read"
    /\ sends[s].pos = Len(Serialize(sends[s].body))
    /\ IF SavesAssistant(sends[s])
       THEN /\ sends' = [sends EXCEPT ![s] =
                   [Logged(@, LogEntry("saveAsst", activeConversationId))
                       EXCEPT !.pc = "saveAsst"]]
            /\ UNCHANGED isLoading
       ELSE EndSend(s, sends[s], "completed")
    /\ UNCHANGED <<isAuthenticated, ctxVars, history, abortControllerRef,
                   aborted, nextSend, framing, sideVars>>

\* reader.read() resolves with done: the loop ends; the assistant message is
\* saved when the invocation is authenticated
ReadDone(s) ==
    /\ sends[s].pc = "read"
    /\ sends[s].pos = Len(Serialize(sends[s].body))
    /\ IF SavesAssistant(sends[s])
       THEN /\ sends' = [sends EXCEPT ![s] =
                   [Logged(@, LogEntry("saveAsst", sends[s].conv))
                       EXCEPT !.pc = "saveAsst"]]
            /\ UNCHANGED isLoading
       ELSE EndSend(s, sends[s], "completed")
    /\ UNCHANGED <<isAuthenticated, ctxVars, history, abortControllerRef,
                   aborted, nextSend, framing, sideVars>>

\* sendMessage for the assistant message resolves: the sidebar is updated,
\* then the chart artifact is saved when there is a chart
SaveAsstOk(s) ==
    /\ sends[s].pc = "saveAsst"
    /\ conversations' = UpdateSidebarItem(conversations, sends[s].conv,
                                          Preview(sends[s].query),
                                          clock + 1 + clockSkew)
    /\ clock' = clock + 1
    /\ LET rec == Logged(Logged([sends[s] EXCEPT !.msgId = s],
                                LogEntry("saveAsst.ok", sends[s].conv)),
                         LogEntry("sidebar", sends[s].conv))
       IN IF sends[s].msg.chart # NoChart
          THEN /\ sends' = [sends EXCEPT ![s] =
                      [Logged(rec, LogEntry("artifact", sends[s].conv))
                          EXCEPT !.pc = "saveArt"]]
               /\ UNCHANGED isLoading
          ELSE EndSend(s, rec, "completed")
    /\ UNCHANGED <<isAuthenticated, activeConversationId, pageVars, nextConvId,
                   history, abortControllerRef, aborted, nextSend, framing, sideVars>>

\* sendMessage for the assistant message rejects: logged
SaveAsstFail(s) ==
    /\ sends[s].pc = "saveAsst"
    /\ EndSend(s, Logged(sends[s], LogEntry("saveAsst.fail", sends[s].conv)),
               "completed")
    /\ UNCHANGED <<isAuthenticated, ctxVars, history, abortControllerRef,
                   aborted, nextSend, framing, sideVars>>

\* createArtifact resolves: the end of the try block
SaveArtOk(s) ==
    /\ sends[s].pc = "saveArt"
    /\ EndSend(s, Logged(sends[s], LogEntry("artifact.ok", sends[s].conv)),
               "completed")
    /\ UNCHANGED <<isAuthenticated, ctxVars, history, abortControllerRef,
                   aborted, nextSend, framing, sideVars>>

\* SaveArtFail with the rejection reaching the outer catch
SaveArtFailRethrown(s) ==
    /\ sends[s].pc = "saveArt"
    /\ FailSend(s, Logged(sends[s], LogEntry("artifact.fail", sends[s].conv)))
    /\ UNCHANGED <<isAuthenticated, ctxVars, abortControllerRef, aborted,
                   nextSend, framing, sideVars>>

\* createArtifact rejects: the innermost catch logs
SaveArtFail(s) ==
    /\ sends[s].pc = "saveArt"
    /\ EndSend(s, Logged(sends[s], LogEntry("artifact.fail", sends[s].conv)),
               "completed")
    /\ UNCHANGED <<isAuthenticated, ctxVars, history, abortControllerRef,
                   aborted, nextSend, framing, sideVars>>

(* ------------------------ ConversationsContext ------------------------- *)
SidebarIds == { conversations[i].id : i \in 1..Len(conversations) }

\* the active id, the message buffer and the pagination cursor when a load is
\* requested; kept with the request as bookkeeping
Cursor == <<activeConversationId, messages, messagesPage, hasMoreMessages>>

\* selectConversation(c), up to the await of getMessages(c, 1, 30)
SelectConversation ==
    /\ \E c \in SidebarIds :
        IF c = activeConversationId
        THEN UNCHANGED <<activeConversationId, pageVars, history>>
        ELSE /\ nextReq < MaxLoads
             /\ activeConversationId' = c
             /\ messages' = <<>>
             /\ messagesPage' = 1
             /\ isLoadingMessages' = TRUE
             /\ nextReq' = nextReq + 1
             /\ requests' = requests \cup
                   {[n |-> nextReq + 1, kind |-> "select", conv |-> c, page |-> 1,
                     was |-> Cursor]}
             /\ history' = ClearOnNewChat(SyncHistory(history, <<>>),
                                          activeConversationId, c)
             /\ UNCHANGED hasMoreMessages
    /\ freshChat' = FALSE
    /\ UNCHANGED <<isAuthenticated, conversations, nextConvId, clock, isLoading,
                   abortControllerRef, aborted, sends, nextSend, framing,
                   clockSkew, calls>>

\* loadMoreMessages(), up to the await of getMessages(active, nextPage, 30)
LoadMoreMessages ==
    /\ IF activeConversationId = Null \/ isLoadingMessages \/ ~hasMoreMessages
       THEN UNCHANGED pageVars
       ELSE /\ nextReq < MaxLoads
            /\ isLoadingMessages' = TRUE
            /\ nextReq' = nextReq + 1
            /\ requests' = requests \cup
                  {[n |-> nextReq + 1, kind |-> "more",
                    conv |-> activeConversationId, page |-> messagesPage + 1,
                    was |-> Cursor]}
            /\ UNCHANGED <<messages, messagesPage, hasMoreMessages>>
    /\ UNCHANGED <<isAuthenticated, conversations, activeConversationId,
                   nextConvId, clock, sendVars, framing, sideVars>>

\* getMessages resolves: the try block and finally of selectConversation or
\* of loadMoreMessages
PageLoaded(r) ==
    /\ r \in requests /\ r.kind \in {"select", "more"}
    /\ requests' = requests \ {r}
    /\ messages' = IF r.kind = "select" THEN BackendPage(r.conv, r.page)
                   ELSE BackendPage(r.conv, r.page) \o messages
    /\ messagesPage' = IF r.kind = "select" THEN messagesPage ELSE r.page
    /\ hasMoreMessages' = BackendHasMore(r.conv, r.page)
    /\ isLoadingMessages' = FALSE
    /\ history' = SyncHistory(history, messages')
    /\ UNCHANGED <<isAuthenticated, conversations, activeConversationId,
                   nextReq, nextConvId, clock, isLoading, abortControllerRef,
                   aborted, sends, nextSend, framing, sideVars>>

\* getMessages rejects: the catch logs, finally clears the flag
PageLoadFailed(r) ==
    /\ r \in requests /\ r.kind \in {"select", "more"}
    /\ requests' = requests \ {r}
    /\ isLoadingMessages' = FALSE
    /\ UNCHANGED <<isAuthenticated, conversations, activeConversationId,
                   messages, messagesPage, hasMoreMessages, nextReq, nextConvId,
                   clock, sendVars, framing, sideVars>>

\* startNewChat()
StartNewChat ==
    /\ activeConversationId' = Null
    /\ messages' = <<>>
    /\ history' = ClearOnNewChat(SyncHistory(history, <<>>),
                                 activeConversationId, Null)
    /\ freshChat' = TRUE
    /\ UNCHANGED <<isAuthenticated, conversations, messagesPage,
                   hasMoreMessages, isLoadingMessages, requests, nextReq,
                   nextConvId, clock, isLoading, abortControllerRef, aborted,
                   sends, nextSend, framing, clockSkew, calls>>

(* -------------------------- login and logout --------------------------- *)
\* GET /api/conversations/sidebar: the conversations of the user, newest first
BackendSidebar ==
    [i \in 1..NumConvs |->
        NewSidebarEntry(NumConvs + 1 - i, <<"old">>, NumConvs + 1 - i)]

\* login() or register() resolves: setIsAuthenticated(true); the effect of
\* the provider calls loadSidebar, the effects of AppContent sync or clear
\* the transcript
Login ==
    /\ ~isAuthenticated
    /\ nextReq < MaxLoads
    /\ isAuthenticated' = TRUE
    /\ nextReq' = nextReq + 1
    /\ requests' = requests \cup
          {[n |-> nextReq + 1, kind |-> "sidebar", conv |-> Null, page |-> 0,
            was |-> Cursor]}
    /\ history' = IF activeConversationId = Null THEN <<>>
                  ELSE IF Len(messages) > 0
                  THEN [i \in 1..Len(messages) |-> ConvertMessage(messages[i])]
                  ELSE history
    /\ UNCHANGED <<conversations, activeConversationId, messages, messagesPage,
                   hasMoreMessages, isLoadingMessages, nextConvId, clock,
                   isLoading, abortControllerRef, aborted, sends, nextSend,
                   framing, sideVars>>

\* getSidebar resolves: setConversations(response.conversations)
SidebarLoaded(r) ==
    /\ r \in requests /\ r.kind = "sidebar"
    /\ requests' = requests \ {r}
    /\ conversations' = BackendSidebar
    /\ UNCHANGED <<isAuthenticated, activeConversationId, messages,
                   messagesPage, hasMoreMessages, isLoadingMessages, nextReq,
                   nextConvId, clock, sendVars, framing, sideVars>>

\* getSidebar rejects: the catch logs
SidebarLoadFailed(r) ==
    /\ r \in requests /\ r.kind = "sidebar"
    /\ requests' = requests \ {r}
    /\ UNCHANGED <<isAuthenticated, conversations, activeConversationId,
                   messages, messagesPage, hasMoreMessages, isLoadingMessages,
                   nextReq, nextConvId, clock, sendVars, framing, sideVars>>

\* logout(): setIsAuthenticated(false); the effect of the provider clears the
\* sidebar, the active id and the messages, the effect of AppContent clears
\* the transcript
Logout ==
    /\ isAuthenticated
    /\ isAuthenticated' = FALSE
    /\ conversations' = <<>>
    /\ activeConversationId' = Null
    /\ messages' = <<>>
    /\ history' = <<>>
    /\ freshChat' = FALSE
    /\ UNCHANGED <<messagesPage, hasMoreMessages, isLoadingMessages, requests,
                   nextReq, nextConvId, clock, isLoading, abortControllerRef,
                   aborted, sends, nextSend, framing, clockSkew, calls>>

(* ---------------------- rename and delete --------------------------- *)
\* the titles the user may type in the sidebar
Titles == { <<"new">> }

Settled(k, how) == (calls \ {k}) \cup {[k EXCEPT !.state = how]}

\* deleteConversation(c), called by handleDelete, up to the await of the
\* DELETE request; active is the activeConversationId of the closure
DeleteConversation ==
    /\ Cardinality(calls) < MaxCalls
    /\ \E c \in SidebarIds :
          calls' = calls \cup
             {[n |-> Cardinality(calls) + 1, kind |-> "delete", conv |-> c,
               title |-> <<>>, active |-> activeConversationId,
               state |-> "pending"]}
    /\ UNCHANGED <<isAuthenticated, ctxVars, sendVars, framing, clockSkew,
                   freshChat>>

\* the DELETE request succeeds: the entry is filtered out, and the active id
\* and the messages are cleared when the closure's active id is the deleted one
DeleteOk(k) ==
    /\ k \in calls /\ k.kind = "delete" /\ k.state = "pending"
    /\ calls' = Settled(k, "resolved")
    /\ conversations' = SelectSeq(conversations, LAMBDA c : c.id # k.conv)
    /\ IF k.active = k.conv
       THEN /\ activeConversationId' = Null
            /\ messages' = <<>>
            /\ history' = ClearOnNewChat(SyncHistory(history, <<>>),
                                         activeConversationId, Null)
       ELSE UNCHANGED <<activeConversationId, messages, history>>
    /\ UNCHANGED <<isAuthenticated, messagesPage, hasMoreMessages,
                   isLoadingMessages, requests, nextReq, nextConvId, clock,
                   isLoading, abortControllerRef, aborted, sends, nextSend,
                   framing, clockSkew, freshChat>>

\* DeleteFail with the entry removed all the same
DeleteFailRemoves(k) ==
    /\ k \in calls /\ k.kind = "delete" /\ k.state = "pending"
    /\ calls' = Settled(k, "rejected")
    /\ conversations' = SelectSeq(conversations, LAMBDA c : c.id # k.conv)
    /\ UNCHANGED <<isAuthenticated, activeConversationId, pageVars, nextConvId,
                   clock, sendVars, framing, clockSkew, freshChat>>

\* the DELETE request fails: the catch logs and rethrows
DeleteFail(k) ==
    /\ k \in calls /\ k.kind = "delete" /\ k.state = "pending"
    /\ calls' = Settled(k, "rejected")
    /\ UNCHANGED <<isAuthenticated, ctxVars, sendVars, framing, clockSkew,
                   freshChat>>

\* updateTitle(c, title), called by handleSaveEdit, up to the await of the
\* PUT request
UpdateTitle ==
    /\ Cardinality(calls) < MaxCalls
    /\ \E c \in SidebarIds, title \in Titles :
          calls' = calls \cup
             {[n |-> Cardinality(calls) + 1, kind |-> "rename", conv |-> c,
               title |-> title, active |-> activeConversationId,
               state |-> "pending"]}
    /\ UNCHANGED <<isAuthenticated, ctxVars, sendVars, framing, clockSkew,
                   freshChat>>

\* the PUT request succeeds: the title of the entry is replaced
RenameOk(k) ==
    /\ k \in calls /\ k.kind = "rename" /\ k.state = "pending"
    /\ calls' = Settled(k, "resolved")
    /\ conversations' = [i \in 1..Len(conversations) |->
                            IF conversations[i].id = k.conv
                            THEN [conversations[i] EXCEPT !.title = k.title]
                            ELSE conversations[i]]
    /\ UNCHANGED <<isAuthenticated, activeConversationId, pageVars, nextConvId,
                   clock, sendVars, framing, clockSkew, freshChat>>

\* the PUT request fails: the catch logs and rethrows
RenameFail(k) ==
    /\ k \in calls /\ k.kind = "rename" /\ k.state = "pending"
    /\ calls' = Settled(k, "rejected")
    /\ UNCHANGED <<isAuthenticated, ctxVars, sendVars, framing, clockSkew,
                   freshChat>>

(* --------------------------- specifications ---------------------------- *)
\* a conversation the sidebar holds when the session starts authenticated
OldConv == Null + 1

InitCommon ==
    /\ messages = <<>>
    /\ messagesPage = 1
    /\ hasMoreMessages = FALSE
    /\ isLoadingMessages = FALSE
    /\ history = <<>>
    /\ isLoading = FALSE
    /\ abortControllerRef = Null
    /\ aborted = {}
    /\ sends = [s \in Sends |-> IdleSend]
    /\ nextSend = 0
    /\ requests = {}
    /\ nextReq = 0
    /\ nextConvId = OldConv + 1
    /\ clock = 1
    /\ clockSkew = 0
    /\ calls = {}
    /\ freshChat = FALSE

\* logged out; or logged in with the sidebar loaded and either a new chat or
\* a conversation without messages selected
Init ==
    /\ InitCommon
    /\ framing \in {"lines", "bytes"}
    /\ isAuthenticated \in BOOLEAN
    /\ conversations = IF isAuthenticated
                       THEN <<NewSidebarEntry(OldConv, <<"old">>, 1)>>
                       ELSE <<>>
    /\ activeConversationId \in (IF isAuthenticated THEN {Null, OldConv}
                                 ELSE {Null})

Next ==
    \/ SendBlank
    \/ Send
    \/ Stop
    \/ \E s \in Sends :
        \/ CreateOk(s)
        \/ CreateFail(s)
        \/ SaveUserDone(s)
        \/ FetchOk(s)
        \/ FetchFail(s)
        \/ ReadChunk(s)
        \/ ReadFail(s)
        \/ ReadDone(s)
        \/ SaveAsstOk(s)
        \/ SaveAsstFail(s)
        \/ SaveArtOk(s)
        \/ SaveArtFail(s)

Spec == Init /\ [][Next]_vars

\* the continuation of invocation s when the promise it awaits settles
StepOf(s) ==
    \/ CreateOk(s) \/ CreateFail(s) \/ SaveUserDone(s)
    \/ FetchOk(s) \/ FetchFail(s)
    \/ ReadChunk(s) \/ ReadFail(s) \/ ReadDone(s)
    \/ SaveAsstOk(s) \/ SaveAsstFail(s)
    \/ SaveArtOk(s) \/ SaveArtFail(s)

\* every backend call and every read of the stream eventually settles, and
\* the event loop then runs the continuation
SpecLive == Init /\ [][Next]_vars /\ \A s \in Sends : WF_vars(StepOf(s))

(* The stream loop alone: one guest invocation whose query was answered,    *)
(* for every response body and both kinds of chunk boundaries.              *)
InitIngest ==
    /\ isAuthenticated = FALSE
    /\ conversations = <<>>
    /\ activeConversationId = Null
    /\ messages = <<>>
    /\ messagesPage = 1
    /\ hasMoreMessages = FALSE
    /\ isLoadingMessages = FALSE
    /\ isLoading = TRUE
    /\ abortControllerRef = 1
    /\ aborted = {}
    /\ nextSend = 1
    /\ requests = {}
    /\ nextReq = 0
    /\ nextConvId = OldConv + 1
    /\ clock = 1
    /\ clockSkew = 0
    /\ calls = {}
    /\ freshChat = FALSE
    /\ framing \in {"lines", "bytes"}
    /\ history = <<UserEntry(1, <<"q">>), AssistantEntry(1, FreshAssistantMsg)>>
    /\ \E b \in Bodies :
          sends = [s \in Sends |->
                     IF s = 1
                     THEN [IdleSend EXCEPT !.pc = "read", !.query = <<"q">>,
                                           !.sig = 1, !.body = b, !.at = 2,
                                           !.log = <<[op |-> "query",
                                                      conv |-> Null,
                                                      active |-> Null]>>]
                     ELSE IdleSend]

NextIngest == \E s \in Sends : ReadChunk(s) \/ ReadDone(s)

SpecIngest == InitIngest /\ [][NextIngest]_vars

(* Conversation switching and pagination alone: logged in, the sidebar      *)
(* loaded with the backend's conversations, no conversation selected.       *)
InitPages ==
    /\ InitCommon
    /\ framing = "lines"
    /\ isAuthenticated = TRUE
    /\ conversations =
          [i \in 1..NumConvs |->
              NewSidebarEntry(NumConvs + 1 - i, <<"old">>, NumConvs + 1 - i)]
    /\ activeConversationId = Null

NextPages ==
    \/ SelectConversation
    \/ LoadMoreMessages
    \/ StartNewChat
    \/ \E r \in requests :
        \/ PageLoaded(r)
        \/ PageLoadFailed(r)

SpecPages == InitPages /\ [][NextPages]_vars

(* The session of a logged-in user: sends that succeed and new chats, with *)
(* the browser's clock behind, in step with or ahead of the backend's.  The  *)
(* sidebar holds the backend's conversations, stamped by the backend, newest *)
(* first; no conversation is selected, or one is and its newest page loaded. *)
InitSession ==
    /\ isAuthenticated = TRUE
    /\ conversations =
          [i \in 1..NumConvs |->
              NewSidebarEntry(NumConvs + 1 - i, <<"old">>, NumConvs + 1 - i)]
    /\ activeConversationId \in {Null} \cup Convs
    /\ messages = IF activeConversationId = Null THEN <<>>
                  ELSE BackendPage(activeConversationId, 1)
    /\ messagesPage = 1
    /\ hasMoreMessages = IF activeConversationId = Null THEN FALSE
                         ELSE BackendHasMore(activeConversationId, 1)
    /\ isLoadingMessages = FALSE
    /\ history = SyncHistory(<<>>, messages)
    /\ isLoading = FALSE
    /\ abortControllerRef = Null
    /\ aborted = {}
    /\ sends = [s \in Sends |-> IdleSend]
    /\ nextSend = 0
    /\ requests = {}
    /\ nextReq = 0
    /\ nextConvId = NumConvs + 1
    /\ clock = NumConvs
    /\ framing = "lines"
    /\ clockSkew \in {0 - MaxSkew, 0, MaxSkew}
    /\ calls = {}
    /\ freshChat = FALSE

NextSession ==
    \/ Send
    \/ StartNewChat
    \/ \E s \in Sends :
        \/ CreateOk(s)
        \/ SaveUserDone(s)
        \/ FetchOk(s)
        \/ ReadChunk(s)
        \/ ReadDone(s)
        \/ SaveAsstOk(s)
        \/ SaveArtOk(s)

SpecSession == InitSession /\ [][NextSession]_vars

(* Renames and deletes of a logged-in user, with conversation switches.     *)
InitManage ==
    /\ InitSession
    /\ clockSkew = 0

NextManage ==
    \/ SelectConversation
    \/ StartNewChat
    \/ DeleteConversation
    \/ UpdateTitle
    \/ \E k \in calls :
        \/ DeleteOk(k)
        \/ DeleteFail(k)
        \/ RenameOk(k)
        \/ RenameFail(k)

SpecManage == InitManage /\ [][NextManage]_vars

(* Logging in and out, with the loads of the sidebar and of the message     *)
(* pages.  The chat is rendered only while logged in.                       *)
InitAuth ==
    /\ InitCommon
    /\ framing = "lines"
    /\ isAuthenticated = FALSE
    /\ conversations = <<>>
    /\ activeConversationId = Null

NextAuth ==
    \/ Login
    \/ Logout
    \/ isAuthenticated /\ SelectConversation
    \/ isAuthenticated /\ LoadMoreMessages
    \/ isAuthenticated /\ StartNewChat
    \/ \E r \in requests :
        \/ SidebarLoaded(r)
        \/ SidebarLoadFailed(r)
        \/ PageLoaded(r)
        \/ PageLoadFailed(r)

SpecAuth == InitAuth /\ [][NextAuth]_vars

(* Sends of a logged-in user who may log out while a send is in flight.     *)
InitSignOut ==
    /\ InitSession
    /\ clockSkew = 0

NextSignOut ==
    \/ isAuthenticated /\ Send
    \/ Logout
    \/ \E s \in Sends : StepOf(s)

SpecSignOut == InitSignOut /\ [][NextSignOut]_vars

(* ------------------------------ properties ------------------------------ *)
\* the event a well-formed line encodes, read off the encoding
KindOf(line) == line[2]
PayloadOf(line) == SubSeq(line, 3, Len(line) - 1)
TokenLines == { l \in EventLines : KindOf(l) = "t" }
ErrorLines == { l \in EventLines : KindOf(l) = "e" }

\* the chunk values of a sequence of token events, concatenated in order
RECURSIVE ConcatChunks(_)
ConcatChunks(events) ==
    IF events = <<>> THEN <<>>
    ELSE PayloadOf(Head(events)) \o ConcatChunks(Tail(events))

\* the assistant entries of the transcript that invocation s made
AssistantEntriesOf(s) ==
    SelectSeq(history, LAMBDA e : e.role = "assistant" /\ e.owner = s)

Finished(s) == sends[s].pc = "completed"

\* the message of the transcript that invocation s appended as its placeholder
MessageOf(s) == history[sends[s].at]

\* C1: when a stream of well-formed token events has ended without
\* cancellation or transport error, the content of the assistant message
\* created for it is the concatenation of the events' chunk values in arrival
\* order.
C1_TokensConcatenated ==
    \A s \in Sends :
        (/\ Finished(s)
         /\ \A i \in 1..Len(sends[s].body) : sends[s].body[i] \in TokenLines)
        => /\ sends[s].msg.content = ConcatChunks(sends[s].body)
           /\ MessageOf(s).content = ConcatChunks(sends[s].body)

\* C9: the result of ingesting a stream is the same for every division of its
\* bytes into chunks as when each line arrives whole.
C9_ChunkingIndependent ==
    \A s \in Sends :
        Finished(s) =>
            sends[s].msg = ProcessChunk(FreshAssistantMsg, Serialize(sends[s].body))

\* what the claimed fold adds to the content for one event line
Contribution(line) ==
    IF line \in TokenLines THEN PayloadOf(line)
    ELSE IF line \in ErrorLines
         THEN <<NL, "[Error: ">> \o PayloadOf(line) \o <<"]">>
    ELSE <<>>

RECURSIVE ExpectedContent(_)
ExpectedContent(events) ==
    IF events = <<>> THEN <<>>
    ELSE Contribution(Head(events)) \o ExpectedContent(Tail(events))

Marker(line) == <<"[Error: ">> \o PayloadOf(line) \o <<"]">>
EndsWith(c, m) ==
    Len(c) >= Len(m) /\ SubSeq(c, Len(c) - Len(m) + 1, Len(c)) = m
Contains(c, m) ==
    \E i \in 0..(Len(c) - Len(m)) : SubSeq(c, i + 1, i + Len(m)) = m

\* C10: an error event appends the marker [Error: <content>] to the content
\* and does not end the stream: the events after it are applied in order, so
\* that when the stream has ended the content is what all its events add in
\* order; it contains the marker, and ends with it when no later event added
\* content.
C10_ErrorEventAppends ==
    \A s \in Sends :
        Finished(s) =>
            LET ev == sends[s].body
                c == sends[s].msg.content
            IN  /\ c = ExpectedContent(ev)
                /\ \A i \in 1..Len(ev) :
                      ev[i] \in ErrorLines =>
                        /\ Contains(c, Marker(ev[i]))
                        /\ (\A j \in (i + 1)..Len(ev) : Contribution(ev[j]) = <<>>)
                              => EndsWith(c, Marker(ev[i]))

Ops(log) == [i \in 1..Len(log) |-> log[i].op]
SignalAborted(s) == sends[s].sig # Null /\ sends[s].sig \in aborted

\* C2: when stop is invoked while a stream is being read, the assistant
\* message of that stream holds afterwards exactly the content accumulated
\* from the events applied before the stop (the stop changes neither the
\* message nor the transcript), and from then on the invocation of the
\* cancelled stream takes no step: none of its events changes a message.
C2_StopFreezesStream ==
    [][\A s \in Sends :
        /\ (sends[s].pc = "read" /\ sends'[s].pc = "aborted")
              => /\ history' = history
                 /\ sends'[s].msg = sends[s].msg
                 /\ history'[sends[s].at].role = "assistant"
                 /\ history'[sends[s].at].content = sends[s].msg.content
        /\ (SignalAborted(s) /\ sends[s].pc \in {"fetch", "read", "aborted"})
              => (sends'[s] = [sends[s] EXCEPT !.pc = "aborted"]
                     \/ sends'[s].pc = "ended")
      ]_vars

\* C4: at most one invocation is in its streaming phase (query requested or
\* stream being read), and an invocation whose controller was aborted by a
\* stop never requests or reads a query stream.
C4_SingleStream ==
    /\ Cardinality({ s \in Sends : sends[s].pc \in {"fetch", "read"} }) <= 1
    /\ \A s \in Sends :
          (s \in aborted) => sends[s].pc \notin {"fetch", "read"}

PersistenceOps ==
    {"create", "create.ok", "create.fail", "saveUser", "saveUser.done",
     "saveUser.fail", "saveAsst", "saveAsst.ok", "saveAsst.fail", "sidebar", "artifact",
     "artifact.ok", "artifact.fail"}

C6_Case(s) ==
    /\ Finished(s)
    /\ sends[s].auth
    /\ sends[s].log[1].active = Null
    /\ \A i \in 1..Len(sends[s].log) :
          sends[s].log[i].op \notin {"create.fail", "saveUser.fail",
                                     "saveAsst.fail", "artifact.fail"}

C6_Prefix ==
    <<"create", "create.ok", "saveUser", "saveUser.done", "query">>

C7_FailureReplacesPlaceholder ==
    \A s \in Sends :
        sends[s].pc = "failed" =>
            /\ Len(AssistantEntriesOf(s)) = 1
            /\ AssistantEntriesOf(s)[1].content = FailureString

\* C8: whenever no stream is active, no assistant message of the transcript
\* has empty content.
C8_NoEmptyBubble ==
    (\A s \in Sends : sends[s].pc \notin {"fetch", "read"}) =>
        \A i \in 1..Len(history) :
            history[i].role = "assistant" => history[i].content # <<>>

\* C3: while a conversation is active, every message of the message buffer
\* belongs to it, whatever the order in which the responses of outstanding
\* page loads arrive.
C3_BufferBelongsToActive ==
    activeConversationId # Null =>
        \A i \in 1..Len(messages) : messages[i].conv = activeConversationId

\* the events of the lines that parse, applied in order
RECURSIVE ApplyParseable(_, _)
ApplyParseable(msg, lines) ==
    IF lines = <<>> THEN msg
    ELSE ApplyParseable(ApplyEvent(msg, JSONParse(Head(lines))), Tail(lines))

Parseable(line) == JSONParse(line).ok

\* C11: a line that cannot be parsed is skipped without changing the assistant
\* message and without ending the stream: after every chunk the message is
\* what the events of the chunk's lines with the unparseable lines removed
\* make of it, the stream is still being read, and when every line arrived
\* whole the final content and chart are those of the body's lines with the
\* unparseable lines removed.
C11_BadLinesSkipped ==
    [][\A s \in Sends :
        /\ (sends[s].pc = "read" /\ sends'[s].pos > sends[s].pos)
              => LET chunk == SubSeq(Serialize(sends[s].body),
                                     sends[s].pos + 1, sends'[s].pos)
                 IN  /\ sends'[s].pc = "read"
                     /\ sends'[s].msg =
                            ApplyParseable(sends[s].msg,
                                           SelectSeq(ChunkLines(chunk), Parseable))
        /\ (sends[s].pc = "read" /\ sends'[s].pc = "completed"
                /\ framing = "lines")
              => /\ sends'[s].msg =
                       ApplyParseable(FreshAssistantMsg,
                                      SelectSeq(sends[s].body, Parseable))
                 /\ MessageOf(s)' = AssistantEntry(s, sends'[s].msg)
      ]_vars

\* a stream with an unparseable line before a token has ended with the token
C11_Witness ==
    \E s \in Sends :
        /\ Finished(s)
        /\ sends[s].body = <<BadLine, EncodeEvent("t", <<"a">>)>>
        /\ sends[s].msg.content = <<"a">>
        /\ MessageOf(s).content = <<"a">>

\* are the messages in the backend's order, oldest first, none twice
Ascending(msgs) ==
    \A i \in 1..(Len(msgs) - 1) : msgs[i].id < msgs[i + 1].id

\* C12: when page 2 of conversation c arrives after c was selected, the
\* message buffer is the messages of page 2 followed by those of page 1,
\* oldest first, none duplicated or dropped, and the cursor's page and
\* has_more are those of the response.
C12_PagesInOrder ==
    [][\A r \in requests :
        (PageLoaded(r) /\ r.kind = "more" /\ r.page = 2) =>
            /\ messages' = BackendPage(r.conv, 2) \o BackendPage(r.conv, 1)
            /\ Ascending(messages')
            /\ messagesPage' = 2
            /\ hasMoreMessages' = BackendHasMore(r.conv, 2)
      ]_vars

\* C13: a loadMoreMessages call made while a page load for the active
\* conversation is outstanding issues no backend request, and no page of a
\* conversation is requested by two loads in flight at once.
C13_SingleFlight ==
    [][/\ (\E r \in requests : r.conv = activeConversationId)
            => (LoadMoreMessages => UNCHANGED <<pageVars, history>>)
       /\ \A r1, r2 \in requests' :
             (r1.kind = "more" /\ r1.conv = r2.conv /\ r1.page = r2.page)
                => r1 = r2
      ]_vars

LastOp(rec) == rec.log[Len(rec.log)].op

\* C20: when the assistant message was saved and the save of its chart
\* artifact fails, the message stays saved, the sidebar update of the send
\* stays applied, the transcript is unchanged and the send ends normally,
\* without the failure string.
C20_ArtifactFailureIsolated ==
    [][\A s \in Sends :
        (sends[s].pc = "saveArt" /\ sends'[s].pc # "saveArt") =>
            LET ops == Ops(sends'[s].log) IN
            /\ sends'[s].pc = "completed"
            /\ LastOp(sends'[s]) = "artifact.fail" =>
                  /\ sends'[s].msgId = sends[s].msgId
                  /\ sends[s].msgId # Null
                  /\ \E i \in 1..Len(ops) :
                        ops[i] = "saveAsst.ok" /\ ops[i + 1] = "sidebar"
                  /\ conversations' = conversations
                  /\ history' = history
                  /\ ~isLoading'
                  /\ \A i \in 1..Len(history') :
                        history'[i].owner = s
                           => history'[i].content # FailureString
      ]_vars

\* a send whose artifact save failed has ended with its token and chart shown
C20_Witness ==
    \E s \in Sends :
        /\ Finished(s)
        /\ LastOp(sends[s]) = "artifact.fail"
        /\ MessageOf(s).content = <<"a">>
        /\ MessageOf(s).chart = <<"b">>
        /\ sends[s].msgId # Null

\* C14: after updateSidebarItem is applied for an id present in the sidebar
\* cache, that conversation is at index 0 of the cache with the given
\* preview; when the id is absent the cache keeps the same entries in the
\* same order.
C14_TouchedMovesToTop ==
    [][\A s \in Sends :
        SaveAsstOk(s) =>
            IF sends[s].conv \in SidebarIds
            THEN /\ conversations'[1].id = sends[s].conv
                 /\ conversations'[1].last_message = Preview(sends[s].query)
            ELSE conversations' = conversations
      ]_vars

\* C15: in every reachable state the sidebar cache is ordered by updated_at,
\* newest first.
C15_SidebarSorted ==
    \A i, j \in 1..Len(conversations) :
        i < j => conversations[i].updated_at >= conversations[j].updated_at

\* the number of createNewConversation calls invocation s has made
Creates(rec) == Cardinality({ i \in 1..Len(rec.log) : rec.log[i].op = "create" })

\* C18: startNewChat sets the active id to none and empties the message
\* buffer without any backend call; the next authenticated send after it
\* starts by creating a conversation, creates exactly one, and persists the
\* user message only once the new id is the active id.
C18_NewChatThenLazyCreate ==
    [][/\ StartNewChat =>
            /\ activeConversationId' = Null
            /\ messages' = <<>>
            /\ requests' = requests /\ calls' = calls /\ sends' = sends
       /\ (freshChat /\ isAuthenticated /\ nextSend' = nextSend + 1) =>
            /\ sends'[nextSend'].pc = "create"
            /\ Creates(sends'[nextSend']) = 1
       /\ \A s \in Sends :
            CreateOk(s) =>
                /\ Creates(sends'[s]) = 1
                /\ activeConversationId' = sends'[s].conv
                /\ sends'[s].conv \notin SidebarIds
                /\ LastOp(sends'[s]) = "saveUser"
                /\ sends'[s].log[Len(sends'[s].log)].conv = activeConversationId'
      ]_vars

\* C19: a conversation switch requested while a stream is being read for the
\* active conversation is rejected (the active id stays) or the
\* stream is aborted by it: no step leaves the stream being read while a
\* different conversation, or none, becomes the active one.
C19_NoSwitchDuringStream ==
    [][\A s \in Sends :
        (sends[s].pc = "read" /\ activeConversationId = sends[s].conv) =>
            \/ activeConversationId' = activeConversationId
            \/ sends'[s].pc # "read"
      ]_vars

\* the call record k once it is settled
Rejected(k) == [k EXCEPT !.state = "rejected"]
Resolved(k) == [k EXCEPT !.state = "resolved"]

\* C16: updateTitle and deleteConversation change the sidebar cache only
\* when the backend call has succeeded: issuing the call changes nothing,
\* and when the call fails the cache, the active id and the message buffer
\* are left as they are and the call is rejected to its caller.
C16_CacheChangesOnSuccessOnly ==
    [][/\ (DeleteConversation \/ UpdateTitle) =>
            /\ conversations' = conversations
            /\ activeConversationId' = activeConversationId
            /\ messages' = messages
       /\ \A k \in calls :
            (DeleteFail(k) \/ RenameFail(k)) =>
                /\ conversations' = conversations
                /\ activeConversationId' = activeConversationId
                /\ messages' = messages
                /\ Rejected(k) \in calls'
       /\ (calls' # calls /\ conversations' # conversations) =>
            \E k \in calls : k.state = "pending" /\ Resolved(k) \in calls'
      ]_vars

\* a delete of the active conversation and a rename were both rejected: the
\* entry is still in the cache under its old title, the buffer is loaded
C16_Witness ==
    \E kd, kr \in calls :
        /\ kd.kind = "delete" /\ kd.state = "rejected"
        /\ kr.kind = "rename" /\ kr.state = "rejected"
        /\ kd.conv = activeConversationId
        /\ messages # <<>>
        /\ \E i \in 1..Len(conversations) :
              conversations[i].id = kr.conv /\ conversations[i].title # kr.title
        /\ kd.conv \in SidebarIds

\* C17: when the backend confirms deleteConversation(id), id leaves the
\* sidebar cache, and the active id and the message buffer are cleared if
\* and only if id is the active conversation at that moment; the active id
\* is never a deleted id afterwards.
C17_DeleteClearsIffActive ==
    [][\A k \in calls :
        DeleteOk(k) =>
            /\ k.conv \notin { conversations'[i].id : i \in 1..Len(conversations') }
            /\ IF activeConversationId = k.conv
               THEN activeConversationId' = Null /\ messages' = <<>>
               ELSE /\ activeConversationId' = activeConversationId
                    /\ messages' = messages
            /\ activeConversationId' # k.conv
      ]_vars

\* the transcript holds the failure string as a message of invocation s
ShowsFailure(h, s) ==
    \E i \in 1..Len(h) : h[i].owner = s /\ h[i].content = FailureString

\* C25: a send the user stopped, at whatever point (also while the creation
\* of the conversation or the save of the user message is awaited and the
\* query was not requested yet), never ends as failed, and the failure string
\* is not added to the transcript for it.
C25_StopNeverFails ==
    \A s \in Sends :
        s \in aborted =>
            /\ sends[s].pc # "failed"
            /\ ~ShowsFailure(history, s)

\* C21: a failed creation of the conversation, a failed save of the user
\* message or a failed save of the assistant message removes and alters no
\* message of the transcript and adds no failure string; after a failed
\* creation or a failed save of the user message the query is requested, and
\* after a failed save of the assistant message the send ends normally.
C21_PersistenceFailureIsSoft ==
    [][\A s \in Sends :
        /\ (\E i \in (Len(sends[s].log) + 1)..Len(sends'[s].log) :
                sends'[s].log[i].op \in {"create.fail", "saveUser.fail"})
              => /\ history' = history
                 /\ sends'[s].pc = "fetch"
                 /\ LastOp(sends'[s]) = "query"
        /\ SaveAsstFail(s)
              => /\ history' = history
                 /\ sends'[s].pc = "completed"
                 /\ ~isLoading'
      ]_vars

\* C24: every change of the active conversation resets the pagination cursor
\* to page 1 with has_more false, so that the cursor never holds a page or a
\* has_more obtained for another conversation than the active one.
C24_CursorResetOnSwitch ==
    [][activeConversationId' # activeConversationId =>
          (messagesPage' = 1 /\ hasMoreMessages' = FALSE)
      ]_vars

\* C30: once the page-1 load started by selectConversation(B) has settled
\* with B still active and no answer of another load in the buffer, whether
\* it returned messages, none, or failed, the transcript holds no message
\* loaded for another conversation.
C30_NoStaleTranscript ==
    [][\A r \in requests :
        ((PageLoaded(r) \/ PageLoadFailed(r))
            /\ r.kind = "select" /\ r.conv = activeConversationId
            /\ messages = <<>>) =>
            \A i \in 1..Len(history') :
                history'[i].owner = 0 => history'[i].conv = r.conv
      ]_vars

\* C29: the events of a stream modify only the assistant placeholder that was
\* appended for that stream: a chunk of invocation s leaves every message of
\* the transcript as it is, except a message s itself made as its placeholder.
C29_EventsTouchOwnPlaceholder ==
    [][\A s \in Sends :
        ReadChunk(s) =>
            /\ Len(history') = Len(history)
            /\ \A i \in 1..Len(history) :
                  history'[i] # history[i] =>
                      /\ i = sends[s].at
                      /\ history[i].owner = s
                      /\ history[i].role = "assistant"
      ]_vars

\* the calls of an invocation that carry a conversation id
CarriesConv == {"saveUser", "query", "saveAsst", "sidebar", "artifact"}

Started(s) == sends[s].pc \notin {"idle", "ended"}
Ended(s) == sends[s].pc \in EndStates \cup {"ended"}

\* C27: provided every backend call and stream read eventually settles, every
\* send that passed the blank check eventually ends (completed, aborted or
\* failed) and the loading flag eventually becomes false; and while a send
\* is reading its stream the loading flag is true.
C27_SendsEndAndFlagTracks ==
    /\ [](\A s \in Sends : sends[s].pc = "read" => isLoading)
    /\ \A s \in Sends : Started(s) ~> Ended(s)
    /\ isLoading ~> ~isLoading


\* since load r was requested, nothing but the request itself has touched the
\* active id, the buffer and the cursor
Untouched(r) ==
    IF r.kind = "select"
    THEN Cursor = <<r.conv, <<>>, 1, r.was[4]>>
    ELSE Cursor = r.was

\* C22: a transport error during a sidebar load or a page load (page 1 on
\* selectConversation, later pages on loadMoreMessages) leaves the sidebar
\* cache, the message buffer, the active id and the pagination cursor with
\* the values they had before the failed call, and the loading flag cleared.
C22_FailedLoadLeavesState ==
    [][\A r \in requests :
        /\ SidebarLoadFailed(r) =>
              /\ conversations' = conversations
              /\ Cursor' = Cursor
        /\ (PageLoadFailed(r) /\ Untouched(r)) =>
              /\ conversations' = conversations
              /\ Cursor' = r.was
              /\ ~isLoadingMessages'
      ]_vars

Cleared ==
    /\ conversations = <<>>
    /\ activeConversationId = Null
    /\ messages = <<>>
    /\ messagesPage = 1
    /\ hasMoreMessages = FALSE
    /\ history = <<>>

\* C23: while the session is unauthenticated the sidebar cache, the active
\* id, the message buffer, the pagination cursor and the transcript are
\* empty, also when a load or a call started before the logout completes
\* after it.
C23_LoggedOutIsEmpty == ~isAuthenticated => Cleared

\* the persistence calls: create conversation, persist message, create artifact
PersistenceCalls == {"create", "saveUser", "saveAsst", "artifact"}

\* C26: every persistence call is issued in a state where the session is
\* authenticated: after a logout the remaining persistence steps of a send
\* in flight are not executed.
C26_PersistOnlyWhenAuthenticated ==
    [][\A s \in Sends :
        \A i \in (Len(sends[s].log) + 1)..Len(sends'[s].log) :
            sends'[s].log[i].op \in PersistenceCalls => isAuthenticated
      ]_vars
====
